---- MODULE Spec2Model ----
(***************************************************************************)
(* The notes-tree backed mapping stores of git-cinnabar                    *)
(* (src/libcinnabar.rs): lazy initialisation, lookup, abbreviated lookup,  *)
(* add, remove, enumeration, teardown and the metadata snapshot            *)
(* (store_metadata_notes).                                                 *)
(*                                                                         *)
(* One behaviour follows one notes-tree handle (`handle`), chosen in Init: *)
(* the three statics git2hg, hg2git and files_meta share no state, and the *)
(* code tells them apart only by pointer identity.                         *)
(***************************************************************************)
EXTENDS Integers, Sequences, FiniteSets, TLC

\* ------------------------------------------------------------------ bounds

\* Number of distinct note values (target identifiers) of the model.
NumValues == 2

\* Number of times a behaviour has store_metadata_notes write its result into
\* the oid of the handle (git2hg_oid, hg2git_oid, files_meta_oid).
MaxStored == 1

\* ------------------------------------------------------- program constants

\* Hex digits of a full identifier (the `len == 40` test of get_note_abbrev).
HashLen == 40

\* Shortest abbreviation (hex digits) of an Abbrev.
MinAbbrev == 4

NOTES_INIT_EMPTY == 1

\* crate::store::FILES_META, a bit of metadata_flags.
FILES_META == 1

\* crate::libgit::FileMode values (tree entry modes of the object store).
GITLINK == 57344
REGULAR == 32768
DIRECTORY == 16384
SYMLINK == 40960
RW == 420
RWX == 493

\* --------------------------------------------------------------- identifiers

\* A key is an identifier as a sequence of HashLen hex digits.
Pad(s) == s \o [i \in 1..(HashLen - Len(s)) |-> 0]

\* aaaa00..0, aaaa10..0 and bbbb00..0
KeyA == Pad(<<10, 10, 10, 10>>)
KeyC == Pad(<<10, 10, 10, 10, 1>>)
KeyD == Pad(<<11, 11, 11, 11>>)

\* The identifiers used as keys of the stores: two that share their first
\* four digits. KeyD is only looked up, by its abbreviations.
Keys == {KeyA, KeyC}

\* Identifiers that only occur as the bytes of an abbreviation: the digits
\* after the significant prefix are arbitrary. TailA is KeyA but for its last
\* digit, TailC is aaaa1ff..f, TailN is cccc00..0.
TailA == [KeyA EXCEPT ![HashLen] = 15]
TailC == [i \in 1..HashLen |-> IF i <= 4 THEN 10 ELSE IF i = 5 THEN 1 ELSE 15]
TailN == Pad(<<12, 12, 12, 12>>)

\* The abbreviations looked up, as <<identifier bytes, length>>: every key and
\* an unmapped identifier at full length, and prefixes of 4 and 5 digits that
\* match two keys, one key or none, with zero and non-zero trailing digits.
Abbrevs ==
  ((Keys \cup {KeyD, TailA}) \X {HashLen})
  \cup ({KeyA, KeyD, TailC, TailN} \X {MinAbbrev, MinAbbrev + 1})

\* Note values (identifiers of the target namespace), by number.
Values == 1..NumValues

\* Option::None / the NULL pointer of a lookup.
Absent == 0

\* byte-wise ordering of identifiers (the ordering of the tree's keys)
KeyLess(a, b) ==
  \E i \in 1..HashLen : a[i] < b[i] /\ \A j \in 1..(i - 1) : a[j] = b[j]

\* GitObjectId::from_raw_bytes(..).unwrap() on the raw bytes of an identifier
\* of the other namespace: the same digits, provided the length is right.
from_raw_bytes(bytes) == IF Len(bytes) = HashLen THEN bytes ELSE <<>>

\* --------------------------------------------------------- object identifiers

\* Identifiers of objects of the underlying store are content addresses: the
\* identifier of an object is modelled by its content.
NullOid == [kind |-> "null", entries |-> {}, hdr |-> <<>>]
TreeOid(es) == [kind |-> "tree", entries |-> es, hdr |-> <<>>]
EMPTY_OID == TreeOid({})

is_null(oid) == oid = NullOid

\* The commit text store_metadata_notes builds: `tree <id>`, the fixed
\* author and committer lines, a blank line.
CommitBuf(tree) ==
  <<"tree", tree, "author  <cinnabar@git> 0 +0000",
    "committer  <cinnabar@git> 0 +0000", "">>

\* store_git_commit(buf, result): writes the commit object, result is its id.
store_git_commit(buf) == [kind |-> "commit", entries |-> {}, hdr |-> buf]

\* the tree a commit identifier names
TreeOf(commit) == commit.hdr[2]

\* oid.to_string(): the hex text handed to the init primitive as a ref name.
to_string(oid) == [hex |-> oid]

\* bit test of c_int flags words (the flags used here are single bits)
BitAnd(word, bit) == IF (word \div bit) % 2 = 1 THEN bit ELSE 0

\* ------------------------------------------------------------------- state

Handles == {"git2hg", "hg2git", "files_meta", "other"}
GitHandles == {"git2hg"}
HgHandles == {"hg2git", "files_meta", "other"}

VARIABLES
  handle,          \* the notes tree this behaviour operates on
  metadata_flags,  \* crate::store::metadata_flags
  ref_oid,         \* git2hg_oid / hg2git_oid / files_meta_oid of the handle
  notes,           \* the cinnabar_notes_tree behind the handle
  aborted,         \* the process died (die!)
  lastFlush,       \* the last store_metadata_notes since the last add/remove
  last,            \* the last operation, its arguments and what it returned
  oidop,           \* the last conversion or comparison of object identifiers
  stored           \* how many results were written into the oid of the handle

vars == <<handle, metadata_flags, ref_oid, notes, aborted, lastFlush, last,
          oidop, stored>>

NoEntries == [k \in Keys |-> Absent]

\* a notes tree before cinnabar_init_notes and after cinnabar_free_notes
Uninit == [initialized |-> FALSE, dirty |-> FALSE, entries |-> NoEntries,
           combine |-> "none"]

Mapped(t) == {k \in Keys : t.entries[k] # Absent}

\* ------------------------------------------- primitives of the notes engine

notes_initialized(t) == IF t.initialized THEN 1 ELSE 0

notes_dirty(t) == IF t.dirty THEN 1 ELSE 0

\* the entries of the tree a persisted root commit names
LoadTree(commit) ==
  LET es == TreeOf(commit).entries
  IN [k \in Keys |-> IF \E e \in es : e[1] = k
                      THEN (CHOOSE e \in es : e[1] = k)[3]
                      ELSE Absent]

cinnabar_init_notes(t, notes_ref, combine_notes_fn, flags) ==
  [initialized |-> TRUE, dirty |-> FALSE, combine |-> combine_notes_fn,
   entries |-> IF BitAnd(flags, NOTES_INIT_EMPTY) # 0
               THEN NoEntries
               ELSE LoadTree(notes_ref.hex)]

cinnabar_free_notes(t) == Uninit

cinnabar_get_note(t, oid) == IF oid \in Keys THEN t.entries[oid] ELSE Absent

\* keys of the tree whose first len hex digits are those of oid
Matching(t, oid, len) ==
  {k \in Mapped(t) : \A i \in 1..len : k[i] = oid[i]}

FirstKey(ks) == CHOOSE k \in ks : \A o \in ks : o = k \/ KeyLess(k, o)

get_abbrev_note(t, oid, len) ==
  IF Matching(t, oid, len) = {} THEN Absent
  ELSE t.entries[FirstKey(Matching(t, oid, len))]

\* the collision policy: keep the current value, drop the new one
combine_notes_ignore(cur, new) == cur

Combine(fn, cur, new) == IF fn = "combine_notes_ignore"
                         THEN combine_notes_ignore(cur, new)
                         ELSE new

cinnabar_add_note(t, oid, note) ==
  [t EXCEPT !.dirty = TRUE,
            !.entries[oid] = IF @ = Absent THEN note
                             ELSE Combine(t.combine, @, note)]

cinnabar_remove_note(t, oid) ==
  [t EXCEPT !.dirty = TRUE, !.entries[oid] = Absent]

\* the keys of a set in the tree's ordering
RECURSIVE InOrder(_)
InOrder(ks) == IF ks = {} THEN <<>>
               ELSE <<FirstKey(ks)>> \o InOrder(ks \ {FirstKey(ks)})

\* the entries of an initialised tree, in the tree's ordering
Traversal(t) ==
  [i \in 1..Cardinality(Mapped(t)) |->
     <<InOrder(Mapped(t))[i], t.entries[InOrder(Mapped(t))[i]]>>]

\* cinnabar_for_each_note: the possible outcomes. On a tree that was never
\* initialised the engine works on a null root: it dies, or finds nothing.
cinnabar_for_each_note(t) ==
  IF t.initialized
  THEN {[died |-> FALSE, visited |-> Traversal(t)]}
  ELSE {[died |-> TRUE, visited |-> <<>>], [died |-> FALSE, visited |-> <<>>]}

\* the tree object the entries serialise to, each entry under `mode`
SerialiseTree(t, mode) == TreeOid({<<k, mode, t.entries[k]>> : k \in Mapped(t)})

cinnabar_write_notes_tree(t, mode) ==
  [t |-> [t EXCEPT !.dirty = FALSE], tree |-> SerialiseTree(t, mode)]

\* ------------------------------------------------------ src/libcinnabar.rs

KnownHandles == {"git2hg", "hg2git", "files_meta"}

\* ensure_notes without its notes_initialized test: every call initialises.
ensure_notes_always(h, t) ==
  IF h \notin KnownHandles
  THEN [died |-> TRUE, t |-> t, inited |-> FALSE, flags |-> 0]
  ELSE LET flags0 == IF h = "files_meta"
                        /\ BitAnd(metadata_flags, FILES_META) = 0
                     THEN NOTES_INIT_EMPTY ELSE 0
           flags == IF is_null(ref_oid) THEN NOTES_INIT_EMPTY ELSE flags0
       IN [died |-> FALSE,
           t |-> cinnabar_init_notes(t, to_string(ref_oid),
                                     "combine_notes_ignore", flags),
           inited |-> TRUE, flags |-> flags]

\* ensure_notes handing the engine another combine function.
ensure_notes_overwrite(h, t) ==
  IF notes_initialized(t) = 0
  THEN IF h \notin KnownHandles
       THEN [died |-> TRUE, t |-> t, inited |-> FALSE, flags |-> 0]
       ELSE LET flags0 == IF h = "files_meta"
                             /\ BitAnd(metadata_flags, FILES_META) = 0
                          THEN NOTES_INIT_EMPTY ELSE 0
                flags == IF is_null(ref_oid) THEN NOTES_INIT_EMPTY ELSE flags0
            IN [died |-> FALSE,
                t |-> cinnabar_init_notes(t, to_string(ref_oid),
                                          "combine_notes_overwrite", flags),
                inited |-> TRUE, flags |-> flags]
  ELSE [died |-> FALSE, t |-> t, inited |-> FALSE, flags |-> 0]

\* ensure_notes that starts an unknown tree empty instead of dying.
ensure_notes_lenient(h, t) ==
  IF notes_initialized(t) = 0
  THEN LET flags0 == IF h = "files_meta"
                        /\ BitAnd(metadata_flags, FILES_META) = 0
                     THEN NOTES_INIT_EMPTY ELSE 0
           flags == IF h \notin KnownHandles \/ is_null(ref_oid)
                    THEN NOTES_INIT_EMPTY ELSE flags0
       IN [died |-> FALSE,
           t |-> cinnabar_init_notes(t, to_string(ref_oid),
                                     "combine_notes_ignore", flags),
           inited |-> TRUE, flags |-> flags]
  ELSE [died |-> FALSE, t |-> t, inited |-> FALSE, flags |-> 0]

\* ensure_notes whose initialisation leaves the tree marked dirty.
ensure_notes_dirty(h, t) ==
  IF notes_initialized(t) = 0
  THEN IF h \notin KnownHandles
       THEN [died |-> TRUE, t |-> t, inited |-> FALSE, flags |-> 0]
       ELSE LET flags0 == IF h = "files_meta"
                             /\ BitAnd(metadata_flags, FILES_META) = 0
                          THEN NOTES_INIT_EMPTY ELSE 0
                flags == IF is_null(ref_oid) THEN NOTES_INIT_EMPTY ELSE flags0
            IN [died |-> FALSE,
                t |-> [cinnabar_init_notes(t, to_string(ref_oid),
                                           "combine_notes_ignore", flags)
                         EXCEPT !.dirty = TRUE],
                inited |-> TRUE, flags |-> flags]
  ELSE [died |-> FALSE, t |-> t, inited |-> FALSE, flags |-> 0]

\* ensure_notes testing the dirty flag where it should test initialisation.
ensure_notes_unless_dirty(h, t) ==
  IF notes_dirty(t) = 0
  THEN IF h \notin KnownHandles
       THEN [died |-> notes_initialized(t) = 0, t |-> t, inited |-> FALSE,
             flags |-> 0]
       ELSE LET flags0 == IF h = "files_meta"
                             /\ BitAnd(metadata_flags, FILES_META) = 0
                          THEN NOTES_INIT_EMPTY ELSE 0
                flags == IF is_null(ref_oid) THEN NOTES_INIT_EMPTY ELSE flags0
            IN [died |-> FALSE,
                t |-> cinnabar_init_notes(t, to_string(ref_oid),
                                          "combine_notes_ignore", flags),
                inited |-> TRUE, flags |-> flags]
  ELSE [died |-> FALSE, t |-> t, inited |-> FALSE, flags |-> 0]

\* ensure_notes without the FILES_META test of the files_meta branch.
ensure_notes_no_flag(h, t) ==
  IF notes_initialized(t) = 0
  THEN IF h \notin KnownHandles
       THEN [died |-> TRUE, t |-> t, inited |-> FALSE, flags |-> 0]
       ELSE LET flags == IF is_null(ref_oid) THEN NOTES_INIT_EMPTY ELSE 0
            IN [died |-> FALSE,
                t |-> cinnabar_init_notes(t, to_string(ref_oid),
                                          "combine_notes_ignore", flags),
                inited |-> TRUE, flags |-> flags]
  ELSE [died |-> FALSE, t |-> t, inited |-> FALSE, flags |-> 0]

\* ensure_notes(t): what it leaves of the tree `t` behind handle `h`; `died`
\* when it ends in die!("Unknown notes tree"), `inited` when it called
\* cinnabar_init_notes, with `flags`.
ensure_notes(h, t) ==
  IF notes_initialized(t) = 0
  THEN IF h \notin KnownHandles
       THEN [died |-> TRUE, t |-> t, inited |-> FALSE, flags |-> 0]
       ELSE LET oid == ref_oid
                flags0 == IF h = "files_meta"
                             /\ BitAnd(metadata_flags, FILES_META) = 0
                          THEN NOTES_INIT_EMPTY ELSE 0
                flags == IF is_null(oid) THEN NOTES_INIT_EMPTY ELSE flags0
            IN [died |-> FALSE,
                t |-> cinnabar_init_notes(t, to_string(oid),
                                          "combine_notes_ignore", flags),
                inited |-> TRUE, flags |-> flags]
  ELSE [died |-> FALSE, t |-> t, inited |-> FALSE, flags |-> 0]

\* git_notes_tree::get_note / hg_notes_tree::get_note after ensure_notes
get_note(t, oid) == cinnabar_get_note(t, from_raw_bytes(oid))

\* get_note_abbrev with the branches of its length test swapped.
get_note_abbrev_swapped(t, oid, len) ==
  LET git_oid == from_raw_bytes(oid)
      note == cinnabar_get_note(t, git_oid)
  IN IF len # HashLen
     THEN [ret |-> note, abbrev |-> FALSE]
     ELSE [ret |-> get_abbrev_note(t, git_oid, len), abbrev |-> TRUE]

\* get_note_abbrev returning the exact lookup whatever the length.
get_note_abbrev_exact(t, oid, len) ==
  [ret |-> cinnabar_get_note(t, from_raw_bytes(oid)), abbrev |-> FALSE]

\* get_note_abbrev handing the prefix search a length in bytes.
get_note_abbrev_bytes(t, oid, len) ==
  LET git_oid == from_raw_bytes(oid)
      note == cinnabar_get_note(t, git_oid)
  IN IF len = HashLen
     THEN [ret |-> note, abbrev |-> FALSE]
     ELSE [ret |-> get_abbrev_note(t, git_oid, len \div 2), abbrev |-> TRUE]

\* hg_notes_tree::get_note_abbrev after ensure_notes: the value returned and
\* whether the prefix search (get_abbrev_note) was called
get_note_abbrev(t, oid, len) ==
  LET git_oid == from_raw_bytes(oid)
      note == cinnabar_get_note(t, git_oid)
  IN IF len = HashLen
     THEN [ret |-> note, abbrev |-> FALSE]
     ELSE [ret |-> get_abbrev_note(t, git_oid, len), abbrev |-> TRUE]

\* add_note that returns early when the key is already mapped.
add_note_if_absent(t, oid, note_oid) ==
  IF cinnabar_get_note(t, from_raw_bytes(oid)) # Absent THEN t
  ELSE cinnabar_add_note(t, from_raw_bytes(oid), note_oid)

\* add_note / add_note_hg after ensure_notes
add_note(t, oid, note_oid) == cinnabar_add_note(t, from_raw_bytes(oid), note_oid)

\* remove_note that never reaches cinnabar_remove_note.
remove_note_skipped(t, oid) == t

\* remove_note after ensure_notes
remove_note(t, oid) == cinnabar_remove_note(t, oid)

\* done() without its notes_initialized test: it always releases.
done_always(t) == [t |-> cinnabar_free_notes(t), freed |-> TRUE]

\* done(): the tree left behind and whether cinnabar_free_notes was called
done(t) ==
  IF notes_initialized(t) # 0
  THEN [t |-> cinnabar_free_notes(t), freed |-> TRUE]
  ELSE [t |-> t, freed |-> FALSE]

\* for_each_note_in(notes, f): the outcomes, each with the (key, value) pairs
\* the callback f is called with, in order
for_each_note_in(t) == cinnabar_for_each_note(t)

\* object_id::default(): the null identifier
object_id_default == NullOid

\* the mode store_metadata_notes serialises the entries of a handle under
FlushMode(h) == IF h = "hg2git" THEN GITLINK ELSE REGULAR + RW

\* store_metadata_notes that never copies the reference into the result.
store_metadata_notes_no_reference(h, t, reference, aliased) ==
  LET dirty == notes_dirty(t) # 0
      w == cinnabar_write_notes_tree(t, FlushMode(h))
      tree0 == IF dirty THEN w.tree ELSE NullOid
      tree == IF is_null(tree0) THEN EMPTY_OID ELSE tree0
  IN [t |-> IF dirty THEN w.t ELSE t,
      result |-> store_git_commit(CommitBuf(tree)),
      wrote |-> (IF dirty THEN <<w.tree>> ELSE <<>>)
                \o <<store_git_commit(CommitBuf(tree))>>,
      mode |-> IF dirty THEN FlushMode(h) ELSE 0]

\* store_metadata_notes without its notes_dirty test: it always serialises.
store_metadata_notes_always(h, t, reference, aliased) ==
  LET w == cinnabar_write_notes_tree(t, FlushMode(h))
  IN [t |-> w.t,
      result |-> store_git_commit(CommitBuf(w.tree)),
      wrote |-> <<w.tree, store_git_commit(CommitBuf(w.tree))>>,
      mode |-> FlushMode(h)]

\* store_metadata_notes chaining its commit to the fallback reference.
store_metadata_notes_chained(h, t, reference, aliased) ==
  LET fallback == IF aliased THEN object_id_default ELSE reference
      dirty == notes_dirty(t) # 0
      w == cinnabar_write_notes_tree(t, FlushMode(h))
      tree0 == IF dirty THEN w.tree ELSE NullOid
      result0 == IF is_null(tree0) THEN fallback ELSE NullOid
      tree == IF is_null(tree0) /\ is_null(result0) THEN EMPTY_OID ELSE tree0
      buf == IF is_null(fallback) THEN CommitBuf(tree)
             ELSE <<"tree", tree, "parent", fallback,
                    "author  <cinnabar@git> 0 +0000",
                    "committer  <cinnabar@git> 0 +0000", "">>
  IN [t |-> IF dirty THEN w.t ELSE t,
      result |-> IF ~is_null(tree) THEN store_git_commit(buf) ELSE result0,
      wrote |-> (IF dirty THEN <<w.tree>> ELSE <<>>)
                \o (IF ~is_null(tree) THEN <<store_git_commit(buf)>> ELSE <<>>),
      mode |-> IF dirty THEN FlushMode(h) ELSE 0]

\* store_metadata_notes with the modes of its two branches swapped.
store_metadata_notes_swapped(h, t, reference, aliased) ==
  LET fallback == IF aliased THEN object_id_default ELSE reference
      dirty == notes_dirty(t) # 0
      mode == IF h = "hg2git" THEN REGULAR + RW ELSE GITLINK
      w == cinnabar_write_notes_tree(t, mode)
      tree0 == IF dirty THEN w.tree ELSE NullOid
      result0 == IF is_null(tree0) THEN fallback ELSE NullOid
      tree == IF is_null(tree0) /\ is_null(result0) THEN EMPTY_OID ELSE tree0
  IN [t |-> IF dirty THEN w.t ELSE t,
      result |-> IF ~is_null(tree) THEN store_git_commit(CommitBuf(tree))
                 ELSE result0,
      wrote |-> (IF dirty THEN <<w.tree>> ELSE <<>>)
                \o (IF ~is_null(tree) THEN <<store_git_commit(CommitBuf(tree))>>
                    ELSE <<>>),
      mode |-> IF dirty THEN mode ELSE 0]

\* store_metadata_notes(notes, reference, result): the tree left behind, the
\* result, the objects written in order, and the mode handed to
\* cinnabar_write_notes_tree (0 when it was not called). `reference` is what
\* *reference holds at the call; `aliased` when result points to the same
\* object: *result is cleared first, and `fallback`, what *reference holds
\* when it is read after that, is then the null identifier.
store_metadata_notes_run(h, t, reference, aliased) ==
  LET fallback == IF aliased THEN object_id_default ELSE reference
      dirty == notes_dirty(t) # 0
      w == cinnabar_write_notes_tree(t, FlushMode(h))
      t1 == IF dirty THEN w.t ELSE t
      tree0 == IF dirty THEN w.tree ELSE NullOid
      result0 == IF is_null(tree0) THEN fallback ELSE NullOid
      tree == IF is_null(tree0) /\ is_null(result0) THEN EMPTY_OID ELSE tree0
  IN [t |-> t1,
      result |-> IF ~is_null(tree) THEN store_git_commit(CommitBuf(tree))
                 ELSE result0,
      wrote |-> (IF dirty THEN <<w.tree>> ELSE <<>>)
                \o (IF ~is_null(tree) THEN <<store_git_commit(CommitBuf(tree))>>
                    ELSE <<>>),
      mode |-> IF dirty THEN FlushMode(h) ELSE 0]

\* ---------------------------------------------------------- src/git/mod.rs

\* The raw identifiers converted and compared: the keys and the null id.
RawIds == Keys \cup {Pad(<<>>)}

\* The file modes classified: each type with and without permission bits,
\* and the zero mode.
Modes == {GITLINK, GITLINK + RW, DIRECTORY, DIRECTORY + RWX, REGULAR + RW,
          REGULAR + RWX, SYMLINK, 0}

\* FileMode::typ(): the type bits of a mode (mode & 0o170000)
typ(mode) == ((mode \div 4096) % 16) * 4096

\* the generic identifier and the typed identifiers BlobId, TreeId, CommitId:
\* the same bytes under a kind
GitObjectId(bytes) == [kind |-> "GitObjectId", oid |-> bytes]
TypedKinds == {"BlobId", "TreeId", "CommitId"}
from_unchecked(kind, g) == [kind |-> kind, oid |-> g.oid]
TypedIds == {from_unchecked(k, GitObjectId(b)) : k \in TypedKinds, b \in RawIds}
GenericIds == {GitObjectId(b) : b \in RawIds}

\* enum GitOid { Blob(BlobId), Tree(TreeId), Commit(CommitId) }
Blob(id) == [variant |-> "Blob", id |-> id]
Tree(id) == [variant |-> "Tree", id |-> id]
Commit(id) == [variant |-> "Commit", id |-> id]
GitOids ==
  {Blob(t) : t \in {i \in TypedIds : i.kind = "BlobId"}}
  \cup {Tree(t) : t \in {i \in TypedIds : i.kind = "TreeId"}}
  \cup {Commit(t) : t \in {i \in TypedIds : i.kind = "CommitId"}}

is_blob(self) == self.variant = "Blob"
is_tree(self) == self.variant = "Tree"
is_commit(self) == self.variant = "Commit"

\* GitOid::as_raw_bytes
as_raw_bytes(self) ==
  CASE self.variant = "Blob" -> self.id.oid
    [] self.variant = "Tree" -> self.id.oid
    [] self.variant = "Commit" -> self.id.oid

\* impl From<GitOid> for GitObjectId
GitObjectId_from(value) ==
  CASE value.variant = "Blob" -> GitObjectId(value.id.oid)
    [] value.variant = "Tree" -> GitObjectId(value.id.oid)
    [] value.variant = "Commit" -> GitObjectId(value.id.oid)

\* GitOid::from of a mode taken whole, without typ().
GitOid_from_whole(oid, mode) ==
  CASE mode = GITLINK -> Commit(from_unchecked("CommitId", oid))
    [] mode = DIRECTORY -> Tree(from_unchecked("TreeId", oid))
    [] OTHER -> Blob(from_unchecked("BlobId", oid))

\* impl From<(GitObjectId, FileMode)> for GitOid
GitOid_from(oid, mode) ==
  CASE typ(mode) = GITLINK -> Commit(from_unchecked("CommitId", oid))
    [] typ(mode) = DIRECTORY -> Tree(from_unchecked("TreeId", oid))
    [] OTHER -> Blob(from_unchecked("BlobId", oid))

\* derived From<BlobId>, From<TreeId>, From<CommitId> for GitOid
GitOid_from_typed(id) ==
  CASE id.kind = "BlobId" -> Blob(id)
    [] id.kind = "TreeId" -> Tree(id)
    [] id.kind = "CommitId" -> Commit(id)

\* equality of two identifiers of the same type: byte-wise
oid_eq(a, b) == a.oid = b.oid

\* GitOid equality that looks at the raw bytes only.
GitOid_eq_bytes(a, b) == as_raw_bytes(a) = as_raw_bytes(b)

\* derived PartialEq of GitOid: same variant, equal fields
GitOid_eq(a, b) == a.variant = b.variant /\ oid_eq(a.id, b.id)

\* PartialEq<$name> for GitOid, PartialEq<GitOid> for $name (typed $name)
GitOid_eq_typed(self, other) == GitOid_eq(GitOid_from_typed(other), self)
typed_eq_GitOid(self, other) == GitOid_eq(GitOid_from_typed(self), other)

\* PartialEq<GitObjectId> for GitOid, PartialEq<GitOid> for GitObjectId
GitOid_eq_GitObjectId(self, other) == oid_eq(GitObjectId_from(self), other)
GitObjectId_eq_GitOid(self, other) == oid_eq(GitObjectId_from(other), self)

\* PartialEq between a typed identifier and the generic one (oid_type!)
typed_eq_GitObjectId(self, other) == self.oid = other.oid

\* ------------------------------------------------------------ bookkeeping

NoOidOp == [op |-> "none", oid |-> <<>>, mode |-> 0, out |-> <<>>,
            lhs |-> <<>>, rhs |-> <<>>, eq |-> FALSE]

NoFlush == [some |-> FALSE, result |-> NullOid]

NoOp == [op |-> "none", key |-> <<>>, len |-> 0, val |-> Absent, ret |-> Absent,
         reference |-> NullOid, result |-> NullOid, wrote |-> <<>>,
         visited |-> <<>>, inited |-> FALSE, flags |-> 0, abbrev |-> FALSE,
         freed |-> FALSE, mode |-> 0, wasInit |-> FALSE, wasDirty |-> FALSE,
         was |-> Absent, fresh |-> FALSE, prior |-> Absent,
         priorFresh |-> FALSE, kept |-> TRUE,
         prev |-> NoFlush, died |-> FALSE, again |-> FALSE, place |-> "none"]

\* the record of an operation `op` that started with ensure_notes outcome `e`
Started(op, e) ==
  [NoOp EXCEPT !.op = op, !.inited = e.inited, !.flags = e.flags,
               !.wasInit = notes.initialized, !.wasDirty = notes.dirty]

\* The value given to the add of `oid` that is the operation just before
\* this one, or just before the store_metadata_notes before this one; Absent
\* when there is no such add.
PriorAdd(oid) ==
  IF last.op \in {"add_note", "store_metadata_notes"} /\ ~last.died
     /\ last.key = oid /\ last.val # Absent
  THEN last.val ELSE Absent

\* that add found `oid` unmapped
PriorFresh(oid) == PriorAdd(oid) # Absent /\ last.fresh

\* the process dies inside operation `op`
Die(op) ==
  /\ aborted' = TRUE
  /\ last' = [NoOp EXCEPT !.op = op, !.died = TRUE,
                          !.wasInit = notes.initialized,
                          !.wasDirty = notes.dirty]
  /\ UNCHANGED <<oidop, stored, handle, metadata_flags, ref_oid, notes, lastFlush>>

\* a persisted root: the commit wrapping the tree of entries `es`
RootCommit(es) == store_git_commit(CommitBuf(TreeOid(es)))

PersistedEntries(h) == {<<KeyA, FlushMode(h), 1>>, <<KeyC, FlushMode(h), 2>>}

OtherEntries(h) == {<<KeyC, FlushMode(h), 1>>}

\* the fallback references a caller passes to store_metadata_notes
References ==
  {NullOid, IF is_null(ref_oid) THEN RootCommit(OtherEntries(handle)) ELSE ref_oid}
  \cup (IF lastFlush.some THEN {lastFlush.result} ELSE {})

\* A notes tree that is none of the three statics reaches this code either
\* uninitialised or initialised by its owner (cinnabar_init_notes called
\* outside ensure_notes, on the root the owner keeps for it).
ForeignInit(oid) ==
  cinnabar_init_notes(Uninit, to_string(oid), "combine_notes_ignore",
                      IF is_null(oid) THEN NOTES_INIT_EMPTY ELSE 0)

Init ==
  /\ handle \in Handles
  /\ metadata_flags \in {0, FILES_META}
  /\ handle = "files_meta" \/ metadata_flags = FILES_META
  /\ ref_oid \in {NullOid, RootCommit(PersistedEntries(handle))}
  /\ notes \in {Uninit} \cup (IF handle \in KnownHandles THEN {}
                               ELSE {ForeignInit(ref_oid)})
  /\ aborted = FALSE
  /\ lastFlush = NoFlush
  /\ last = NoOp
  /\ oidop = NoOidOp
  /\ stored = 0

\* ----------------------------------------------------------- git_notes_tree

git_get_note(oid) ==
  /\ ~aborted /\ handle \in GitHandles
  /\ LET e == ensure_notes(handle, notes)
     IN IF e.died THEN Die("get_note")
        ELSE /\ notes' = e.t
             /\ last' = [Started("get_note", e) EXCEPT
                           !.key = oid, !.was = e.t.entries[oid],
                           !.ret = get_note(e.t, oid), !.kept = (e.t = notes)]
             /\ UNCHANGED <<oidop, stored, handle, metadata_flags, ref_oid, aborted,
                            lastFlush>>

git_add_note(oid, note_oid) ==
  /\ ~aborted /\ handle \in GitHandles
  /\ LET e == ensure_notes(handle, notes)
     IN IF e.died THEN Die("add_note")
        ELSE /\ notes' = add_note(e.t, oid, note_oid)
             /\ last' = [Started("add_note", e) EXCEPT
                           !.key = oid, !.val = note_oid,
                           !.was = e.t.entries[oid],
                           !.fresh = (e.t.entries[oid] = Absent),
                           !.prior = PriorAdd(oid),
                           !.priorFresh = PriorFresh(oid),
                           !.kept = (add_note(e.t, oid, note_oid) = notes)]
             /\ lastFlush' = NoFlush
             /\ UNCHANGED <<oidop, stored, handle, metadata_flags, ref_oid, aborted>>

git_remove_note(oid) ==
  /\ ~aborted /\ handle \in GitHandles
  /\ LET e == ensure_notes(handle, notes)
     IN IF e.died THEN Die("remove_note")
        ELSE /\ notes' = remove_note(e.t, oid)
             /\ last' = [Started("remove_note", e) EXCEPT
                           !.key = oid, !.was = e.t.entries[oid],
                           !.kept = (remove_note(e.t, oid) = notes)]
             /\ lastFlush' = NoFlush
             /\ UNCHANGED <<oidop, stored, handle, metadata_flags, ref_oid, aborted>>

git_done ==
  /\ ~aborted /\ handle \in GitHandles
  /\ notes' = done(notes).t
  /\ last' = [NoOp EXCEPT !.op = "done", !.wasInit = notes.initialized,
                          !.wasDirty = notes.dirty,
                          !.freed = done(notes).freed,
                          !.again = (last.op = "done"),
                          !.kept = (done(notes).t = notes)]
  /\ UNCHANGED <<oidop, stored, handle, metadata_flags, ref_oid, aborted, lastFlush>>

git_for_each ==
  /\ ~aborted /\ handle \in GitHandles
  /\ \E out \in for_each_note_in(notes) :
       IF out.died THEN Die("for_each")
       ELSE /\ last' = [NoOp EXCEPT !.op = "for_each",
                                    !.visited = out.visited,
                                    !.wasInit = notes.initialized,
                                    !.wasDirty = notes.dirty]
            /\ UNCHANGED <<oidop, stored, handle, metadata_flags, ref_oid, notes, aborted, lastFlush>>

\* ------------------------------------------------------------ hg_notes_tree

hg_get_note(oid) ==
  /\ ~aborted /\ handle \in HgHandles
  /\ LET e == ensure_notes(handle, notes)
     IN IF e.died THEN Die("get_note")
        ELSE /\ notes' = e.t
             /\ last' = [Started("get_note", e) EXCEPT
                           !.key = oid, !.was = e.t.entries[oid],
                           !.ret = get_note(e.t, oid), !.kept = (e.t = notes)]
             /\ UNCHANGED <<oidop, stored, handle, metadata_flags, ref_oid, aborted,
                            lastFlush>>

hg_get_note_abbrev(oid, len) ==
  /\ ~aborted /\ handle \in HgHandles
  /\ LET e == ensure_notes(handle, notes)
     IN IF e.died THEN Die("get_note_abbrev")
        ELSE /\ notes' = e.t
             /\ last' = [Started("get_note_abbrev", e) EXCEPT
                           !.key = oid, !.len = len,
                           !.ret = get_note_abbrev(e.t, oid, len).ret,
                           !.abbrev = get_note_abbrev(e.t, oid, len).abbrev,
                           !.kept = (e.t = notes)]
             /\ UNCHANGED <<oidop, stored, handle, metadata_flags, ref_oid, aborted,
                            lastFlush>>

hg_for_each ==
  /\ ~aborted /\ handle \in HgHandles
  /\ \E out \in for_each_note_in(notes) :
       IF out.died THEN Die("for_each")
       ELSE /\ last' = [NoOp EXCEPT !.op = "for_each",
                                    !.visited =
                                      [i \in 1..Len(out.visited) |->
                                         <<from_raw_bytes(out.visited[i][1]),
                                           out.visited[i][2]>>],
                                    !.wasInit = notes.initialized,
                                    !.wasDirty = notes.dirty]
            /\ UNCHANGED <<oidop, stored, handle, metadata_flags, ref_oid, notes, aborted, lastFlush>>

hg_add_note(oid, note_oid) ==
  /\ ~aborted /\ handle \in HgHandles
  /\ LET e == ensure_notes(handle, notes)
     IN IF e.died THEN Die("add_note")
        ELSE /\ notes' = add_note(e.t, oid, note_oid)
             /\ last' = [Started("add_note", e) EXCEPT
                           !.key = oid, !.val = note_oid,
                           !.was = e.t.entries[oid],
                           !.fresh = (e.t.entries[oid] = Absent),
                           !.prior = PriorAdd(oid),
                           !.priorFresh = PriorFresh(oid),
                           !.kept = (add_note(e.t, oid, note_oid) = notes)]
             /\ lastFlush' = NoFlush
             /\ UNCHANGED <<oidop, stored, handle, metadata_flags, ref_oid, aborted>>

hg_remove_note(oid) ==
  /\ ~aborted /\ handle \in HgHandles
  /\ LET e == ensure_notes(handle, notes)
     IN IF e.died THEN Die("remove_note")
        ELSE /\ notes' = remove_note(e.t, oid)
             /\ last' = [Started("remove_note", e) EXCEPT
                           !.key = oid, !.was = e.t.entries[oid],
                           !.kept = (remove_note(e.t, oid) = notes)]
             /\ lastFlush' = NoFlush
             /\ UNCHANGED <<oidop, stored, handle, metadata_flags, ref_oid, aborted>>

hg_done ==
  /\ ~aborted /\ handle \in HgHandles
  /\ notes' = done(notes).t
  /\ last' = [NoOp EXCEPT !.op = "done", !.wasInit = notes.initialized,
                          !.wasDirty = notes.dirty,
                          !.freed = done(notes).freed,
                          !.again = (last.op = "done"),
                          !.kept = (done(notes).t = notes)]
  /\ UNCHANGED <<oidop, stored, handle, metadata_flags, ref_oid, aborted, lastFlush>>

\* ------------------------------------------------------ the metadata snapshot

\* Where `result` points: an object of its own, the object `reference` points
\* to, the oid of the handle (the static ensure_notes reads), or that oid with
\* `reference` pointing to it as well.
ResultPlaces == {"own", "reference", "oid", "oid_reference"}

store_metadata_notes(reference, place) ==
  /\ ~aborted
  /\ place \in {"oid", "oid_reference"} => stored < MaxStored
  /\ place = "oid_reference" => reference = ref_oid
  /\ LET r == store_metadata_notes_run(handle, notes, reference,
                                       place \in {"reference", "oid_reference"})
     IN /\ notes' = r.t
        /\ ref_oid' = IF place \in {"oid", "oid_reference"} THEN r.result
                      ELSE ref_oid
        /\ stored' = IF place \in {"oid", "oid_reference"} THEN stored + 1
                     ELSE stored
        /\ lastFlush' = [some |-> TRUE, result |-> r.result]
        /\ last' = [NoOp EXCEPT !.op = "store_metadata_notes",
                                !.reference = reference, !.result = r.result,
                                !.place = place,
                                !.wrote = r.wrote, !.mode = r.mode,
                                !.kept = (r.t = notes),
                                !.key = IF last.op = "add_note" /\ ~last.died
                                        THEN last.key ELSE <<>>,
                                !.val = IF last.op = "add_note" /\ ~last.died
                                        THEN last.val ELSE Absent,
                                !.fresh = (last.op = "add_note" /\ last.fresh),
                                !.wasInit = notes.initialized,
                                !.wasDirty = notes.dirty, !.prev = lastFlush]
        /\ UNCHANGED <<oidop, handle, metadata_flags, aborted>>

\* ------------------------------------------------------------- src/git/mod.rs

NotesIdle ==
  UNCHANGED <<handle, metadata_flags, ref_oid, notes, aborted, lastFlush, last,
              stored>>

\* GitOid::from((oid, mode))
from_mode(oid, mode) ==
  /\ oidop' = [NoOidOp EXCEPT !.op = "from", !.oid = oid, !.mode = mode,
                              !.out = GitOid_from(GitObjectId(oid), mode)]
  /\ NotesIdle

Compared(op, a, b, eq) ==
  [NoOidOp EXCEPT !.op = op, !.lhs = a, !.rhs = b, !.eq = eq]

\* a == b of two GitOid
eq_GitOid(a, b) ==
  /\ oidop' = Compared("GitOid == GitOid", a, b, GitOid_eq(a, b))
  /\ NotesIdle

\* a == t and t == a of a GitOid and a typed identifier
eq_GitOid_typed(a, t) ==
  /\ oidop' = Compared("GitOid == typed", a, t, GitOid_eq_typed(a, t))
  /\ NotesIdle

eq_typed_GitOid(t, a) ==
  /\ oidop' = Compared("typed == GitOid", t, a, typed_eq_GitOid(t, a))
  /\ NotesIdle

\* a == g and g == a of a GitOid and a generic identifier
eq_GitOid_GitObjectId(a, g) ==
  /\ oidop' = Compared("GitOid == GitObjectId", a, g,
                       GitOid_eq_GitObjectId(a, g))
  /\ NotesIdle

eq_GitObjectId_GitOid(g, a) ==
  /\ oidop' = Compared("GitObjectId == GitOid", g, a,
                       GitObjectId_eq_GitOid(g, a))
  /\ NotesIdle

\* t == g of a typed identifier and a generic one
eq_typed_GitObjectId(t, g) ==
  /\ oidop' = Compared("typed == GitObjectId", t, g,
                       typed_eq_GitObjectId(t, g))
  /\ NotesIdle

InitOid ==
  /\ handle = "git2hg"
  /\ metadata_flags = FILES_META
  /\ ref_oid = NullOid
  /\ notes = Uninit
  /\ aborted = FALSE
  /\ lastFlush = NoFlush
  /\ last = NoOp
  /\ oidop = NoOidOp
  /\ stored = 0

NextOid ==
  \/ \E b \in RawIds, m \in Modes : from_mode(b, m)
  \/ \E a \in GitOids, b \in GitOids : eq_GitOid(a, b)
  \/ \E a \in GitOids, t \in TypedIds : eq_GitOid_typed(a, t)
  \/ \E a \in GitOids, t \in TypedIds : eq_typed_GitOid(t, a)
  \/ \E a \in GitOids, g \in GenericIds : eq_GitOid_GitObjectId(a, g)
  \/ \E a \in GitOids, g \in GenericIds : eq_GitObjectId_GitOid(g, a)
  \/ \E t \in TypedIds, g \in GenericIds : eq_typed_GitObjectId(t, g)

SpecOid == InitOid /\ [][NextOid]_vars

\* ------------------------------------------------------------ specification

Next ==
  \/ \E k \in Keys : git_get_note(k)
  \/ git_for_each
  \/ \E k \in Keys, v \in Values : git_add_note(k, v)
  \/ \E k \in Keys : git_remove_note(k)
  \/ git_done
  \/ \E k \in Keys : hg_get_note(k)
  \/ \E a \in Abbrevs : hg_get_note_abbrev(a[1], a[2])
  \/ hg_for_each
  \/ \E k \in Keys, v \in Values : hg_add_note(k, v)
  \/ \E k \in Keys : hg_remove_note(k)
  \/ hg_done
  \/ \E r \in References, p \in ResultPlaces : store_metadata_notes(r, p)

Spec == Init /\ [][Next]_vars

\* ------------------------------------------------------------------ claims

IsFlush == last.op = "store_metadata_notes"

EmptyCommit == store_git_commit(CommitBuf(EMPTY_OID))

\* C1 (original): after store_metadata_notes has been called once, a second
\* call with the same arguments, with no add or remove in between, returns
\* the identifier the first call returned and writes no object (none, at
\* least, that the first call had not written). Stated for the calls whose
\* `result` is an object of its own, where it is already violated.
C1_SameArguments ==
  [][(IsFlush /\ IsFlush' /\ last'.reference = last.reference
      /\ last.place = "own" /\ last'.place = "own")
       => /\ last'.result = last.result
          /\ \A i \in 1..Len(last'.wrote) :
               \E j \in 1..Len(last.wrote) : last'.wrote[i] = last.wrote[j]]_vars

\* `result` points to an object other than the one `reference` points to
Separate == last.place \in {"own", "oid"}

\* C1 (amended): after store_metadata_notes has been called once, a second
\* call with no add or remove in between serialises no tree and leaves the
\* store as it was; when it is given the result of the first call as its
\* fallback reference (reference and result being separate objects), it
\* writes no object and returns the identifier the first call returned.
C1_FlushTwice ==
  (IsFlush /\ last.prev.some)
    => /\ last.kept /\ last.mode = 0
       /\ \A i \in 1..Len(last.wrote) : last.wrote[i].kind # "tree"
       /\ (last.reference = last.prev.result /\ Separate)
            => (last.result = last.prev.result /\ last.wrote = <<>>)

\* a second snapshot handed, in an object of its own, the commit the first
\* one made of a dirty store
C1_Witness ==
  /\ IsFlush /\ last.prev.some /\ last.reference = last.prev.result
  /\ last.place = "own" /\ last.result = last.reference
  /\ notes.initialized /\ Mapped(notes) # {}
  /\ last.reference = store_git_commit(CommitBuf(SerialiseTree(notes, FlushMode(handle))))
  /\ last.reference # ref_oid

\* C2: store_metadata_notes on a store that is not dirty, with a null
\* fallback reference, returns the null identifier and writes no commit.
C2_NullResult ==
  (IsFlush /\ ~last.wasDirty /\ is_null(last.reference))
    => (is_null(last.result) /\ last.wrote = <<>>)

\* What the code does there: it serialises no tree and leaves the store as
\* it was, but writes a commit naming the well-known empty tree and returns
\* its identifier, which is not null.
EmptyTreeCommitOnClean ==
  (IsFlush /\ ~last.wasDirty /\ is_null(last.reference))
    => /\ last.result = EmptyCommit
       /\ ~is_null(last.result)
       /\ last.wrote = <<EmptyCommit>>
       /\ last.mode = 0 /\ last.kept

\* C3: store_metadata_notes on a store that is not dirty, with a non-null
\* fallback reference, returns exactly that reference, writes no tree and no
\* commit, and leaves entries, dirty flag and initialisation as they were
\* (the fallback handed in and the result handed back being separate
\* objects).
C3_FallbackVerbatim ==
  (IsFlush /\ ~last.wasDirty /\ ~is_null(last.reference) /\ Separate)
    => (last.result = last.reference /\ last.wrote = <<>> /\ last.mode = 0
        /\ last.kept)

\* a clean store with entries, snapshot with a fallback that is not its root
C3_Witness ==
  /\ IsFlush /\ ~last.wasDirty /\ ~is_null(last.reference) /\ Separate
  /\ last.wasInit /\ Mapped(notes) # {} /\ last.reference # ref_oid
  /\ last.result = last.reference

\* C4: add(k, v) of a key k the store does not map, followed immediately by
\* get(k), returns v (git-keyed and hg-keyed stores, also when the add is the
\* first operation on an uninitialised store).
C4_AddThenGet ==
  [][(last.op = "add_note" /\ last.fresh
      /\ last'.op = "get_note" /\ last'.key = last.key)
       => last'.ret = last.val]_vars

\* a get that returns a value of a store that started empty
C4_Witness ==
  /\ last.op = "get_note" /\ is_null(ref_oid) /\ last.ret # Absent
  /\ notes.dirty

\* C5 (original): for every key k, add(k, v1), then add(k, v2) with
\* v2 # v1 (a store_metadata_notes between the two adds or not), then get(k)
\* returns v1.
C5_ReturnsFirst ==
  [][(last.op = "add_note" /\ last.prior # Absent /\ last.prior # last.val
      /\ last'.op = "get_note" /\ last'.key = last.key)
       => last'.ret = last.prior]_vars

\* C5 (amended): add(k, v1), then add(k, v2) with v2 # v1 (a
\* store_metadata_notes between the two adds or not), then get(k) returns the
\* value k was mapped to before the second add, never v2 unless that is this
\* value: v1 when k was not mapped before the first add, and the value k
\* already had when it was (the first add is then ignored as well).
C5_IgnoreNew ==
  [][(last.op = "add_note" /\ last.prior # Absent /\ last.prior # last.val
      /\ last'.op = "get_note" /\ last'.key = last.key)
       => /\ last.was # Absent
          /\ last'.ret = last.was
          /\ last.priorFresh => last'.ret = last.prior]_vars

\* the second add, of another value, after a snapshot between the two adds,
\* the first add having mapped the key
C5_Witness ==
  /\ last.op = "add_note" /\ last.prior # Absent /\ last.prior # last.val
  /\ last.priorFresh
  /\ ~last.wasDirty /\ notes.entries[last.key] = last.prior

\* C6: remove(k) followed by get(k) returns absent, whatever k was before; a
\* second remove(k) does not fail and leaves the entries as they are.
C6_RemoveThenGet ==
  [][(last.op = "remove_note" /\ ~last.died)
       => /\ (last'.op = "get_note" /\ last'.key = last.key)
               => last'.ret = Absent
          /\ (last'.op = "remove_note" /\ (last'.died \/ last'.key = last.key))
               => (~last'.died /\ notes'.entries = notes.entries)]_vars

\* a remove, as first operation, of a key mapped only in the persisted root
C6_Witness ==
  last.op = "remove_note" /\ last.inited /\ last.was # Absent

IsAbbrev == last.op = "get_note_abbrev" /\ ~last.died

\* C7: get_note_abbrev with the full length of 40 hex digits returns what
\* get_note returns for that identifier and does not call the prefix search.
C7_FullLength ==
  (IsAbbrev /\ last.len = HashLen)
    => (last.ret = get_note(notes, last.key) /\ ~last.abbrev)

C7_Witness == IsAbbrev /\ last.len = HashLen /\ last.ret # Absent

\* the first len hex digits of k are those of oid
HasPrefix(k, oid, len) == \A i \in 1..len : k[i] = oid[i]

\* the stored keys the abbreviation of the last lookup stands for
PrefixKeys ==
  {k \in Keys : notes.entries[k] # Absent /\ HasPrefix(k, last.key, last.len)}

\* C8: get_note_abbrev with fewer than 40 digits returns absent when no stored
\* key has the prefix, the value of the key when one stored key has it, and
\* never a value of a key that does not have it (keys added and not yet
\* written out included).
C8_PrefixLookup ==
  (IsAbbrev /\ last.len < HashLen)
    => /\ PrefixKeys = {} => last.ret = Absent
       /\ \A k \in PrefixKeys : PrefixKeys = {k} => last.ret = notes.entries[k]
       /\ last.ret # Absent => \E k \in PrefixKeys : last.ret = notes.entries[k]

\* a prefix with non-zero trailing digits that finds a key of a dirty store
C8_Witness ==
  /\ IsAbbrev /\ last.len < HashLen /\ last.key \notin Keys
  /\ Cardinality(PrefixKeys) = 1 /\ notes.dirty /\ last.ret # Absent
  /\ \E k \in Keys \ PrefixKeys : notes.entries[k] \notin {Absent, last.ret}

\* C9: when several stored keys have the prefix, get_note_abbrev returns the
\* value of the first of them in the ordering of the keys, whatever the order
\* of the adds and whatever the digits after the prefix.
C9_FirstMatch ==
  (IsAbbrev /\ last.len < HashLen /\ PrefixKeys # {})
    => /\ \A k \in PrefixKeys :
            (\A o \in PrefixKeys : o = k \/ KeyLess(k, o))
              => last.ret = notes.entries[k]
       /\ \A a \in Abbrevs :
            (a[2] = last.len /\ HasPrefix(a[1], last.key, last.len))
              => get_note_abbrev(notes, a[1], a[2]).ret = last.ret

\* two stored keys with different values share the prefix, and the
\* abbreviation has non-zero digits after it
C9_Witness ==
  /\ IsAbbrev /\ last.len < HashLen /\ last.key \notin Keys
  /\ \E k1, k2 \in PrefixKeys : notes.entries[k1] # notes.entries[k2]

\* the tree lazy initialisation gives the handle
StartingTree == ensure_notes(handle, Uninit).t

\* C10: an operation (get, get_by_prefix, add, remove, for_each) that is the
\* first on an uninitialised store initialises it before it acts; for_each as
\* first operation visits every entry of the persisted root.
C10_LazyInitFirst ==
  (last.op \in {"get_note", "get_note_abbrev", "add_note", "remove_note",
                "for_each"}
   /\ ~last.wasInit /\ handle \in KnownHandles)
    => /\ ~last.died
       /\ notes.initialized
       /\ last.op = "for_each" => last.visited = Traversal(StartingTree)

\* C11: done() on an uninitialised store does not call cinnabar_free_notes
\* and leaves the store as it was, uninitialised; done() on an initialised
\* store calls it (once) and leaves the store uninitialised. So the release
\* primitive is never applied to a store that is not initialised, in
\* particular not by the second of two done() in a row.
C11_DoneRelease ==
  (last.op = "done")
    => /\ last.freed <=> last.wasInit
       /\ ~last.wasInit => last.kept
       /\ ~notes.initialized /\ notes = Uninit
       /\ last.again => (~last.wasInit /\ ~last.freed)

\* the second of two done() in a row, on a handle with a persisted root
C11_Witness ==
  /\ last.op = "done" /\ last.again /\ ~last.freed
  /\ handle \in KnownHandles /\ ~is_null(ref_oid)

\* the class a file mode puts an identifier in
ModeClass(mode) ==
  IF mode \in {GITLINK, GITLINK + RW} THEN "Commit"
  ELSE IF mode \in {DIRECTORY, DIRECTORY + RWX} THEN "Tree"
  ELSE "Blob"

\* C12: GitOid::from((raw id, mode)) gives a GitOid for every raw id and
\* every mode: the Commit variant for a mode of type GITLINK, Tree for
\* DIRECTORY, Blob for every other mode; exactly one of is_blob, is_tree,
\* is_commit is true of it and its raw bytes are those of the raw id; the
\* same raw id under a mode of another class gives another variant with the
\* same raw bytes.
C12_Classification ==
  (oidop.op = "from")
    => /\ oidop.out \in GitOids
       /\ oidop.out.variant = ModeClass(oidop.mode)
       /\ is_commit(oidop.out) <=> ModeClass(oidop.mode) = "Commit"
       /\ is_tree(oidop.out) <=> ModeClass(oidop.mode) = "Tree"
       /\ is_blob(oidop.out) <=> ModeClass(oidop.mode) = "Blob"
       /\ Cardinality({p \in {"b", "t", "c"} :
                         \/ p = "b" /\ is_blob(oidop.out)
                         \/ p = "t" /\ is_tree(oidop.out)
                         \/ p = "c" /\ is_commit(oidop.out)}) = 1
       /\ as_raw_bytes(oidop.out) = oidop.oid
       /\ \A m \in Modes :
            ModeClass(m) # ModeClass(oidop.mode)
              => /\ GitOid_from(GitObjectId(oidop.oid), m) # oidop.out
                 /\ GitOid_from(GitObjectId(oidop.oid), m).variant
                      # oidop.out.variant
                 /\ as_raw_bytes(GitOid_from(GitObjectId(oidop.oid), m))
                      = as_raw_bytes(oidop.out)

\* a directory mode with permission bits, classified as a tree
C12_Witness ==
  /\ oidop.op = "from" /\ oidop.mode = DIRECTORY + RWX /\ oidop.oid = KeyC
  /\ is_tree(oidop.out)

IsComparison == oidop.op \notin {"none", "from"}

\* the raw bytes of an identifier of any of the three forms
RawOf(x) == IF "variant" \in DOMAIN x THEN x.id.oid ELSE x.oid

\* the kind an identifier declares: the variant of a GitOid, the kind of a
\* typed identifier, none for the generic identifier
KindOf(x) ==
  IF "variant" \in DOMAIN x THEN x.variant
  ELSE CASE x.kind = "BlobId" -> "Blob"
         [] x.kind = "TreeId" -> "Tree"
         [] x.kind = "CommitId" -> "Commit"
         [] OTHER -> "any"

\* C13: a comparison between two of the three forms (typed
\* identifier, generic GitObjectId, GitOid) is true if and only if the raw
\* bytes of the two are equal, whatever the declared kind or variant.
C13_BytesOnly ==
  IsComparison => (oidop.eq <=> RawOf(oidop.lhs) = RawOf(oidop.rhs))

\* What the comparisons compute: a comparison with the generic GitObjectId is
\* true if and only if the raw bytes are equal; a comparison between two
\* GitOid, or between a GitOid and a typed identifier, also requires the
\* variants (the variant and the kind of the typed identifier) to be the same.
KindAwareEquality ==
  IsComparison
    => (oidop.eq <=>
          /\ RawOf(oidop.lhs) = RawOf(oidop.rhs)
          /\ \/ "any" \in {KindOf(oidop.lhs), KindOf(oidop.rhs)}
             \/ KindOf(oidop.lhs) = KindOf(oidop.rhs))

IsMutation == last.op \in {"add_note", "remove_note"} /\ ~last.died

\* C14: every add(k, v) and every remove(k) that returns has taken effect
\* (after an add the key is mapped, to v if it was not mapped before; after a
\* remove it is not mapped) and leaves the store dirty, also a remove of a key
\* that is not mapped and an add of a key that is; a store_metadata_notes
\* right after it serialises the tree and returns the commit it writes of
\* that tree rather than copying the fallback reference.
C14_MutationDirties ==
  [][/\ (last'.op = "add_note" /\ ~last'.died)
          => /\ notes'.dirty
             /\ notes'.entries[last'.key] # Absent
             /\ (last'.was = Absent => notes'.entries[last'.key] = last'.val)
     /\ (last'.op = "remove_note" /\ ~last'.died)
          => (notes'.dirty /\ notes'.entries[last'.key] = Absent)
     /\ (IsMutation /\ last'.op = "store_metadata_notes")
          => /\ last'.mode # 0
             /\ last'.wrote =
                  <<SerialiseTree(notes, last'.mode),
                    store_git_commit(CommitBuf(SerialiseTree(notes, last'.mode)))>>
             /\ last'.result = last'.wrote[2]]_vars

\* an add of a key that is already mapped, to a store that was clean
C14_Witness ==
  /\ last.op = "add_note" /\ last.was \notin {Absent, last.val}
  /\ last.wasInit /\ ~last.wasDirty /\ notes.dirty

\* the entries of the tree the oid of the handle names
RootEntries == IF is_null(ref_oid) THEN {} ELSE ref_oid.hdr[2].entries

\* the value the persisted root of the handle maps a key to
Persisted(h, k) ==
  IF \E e \in RootEntries : e[1] = k
  THEN (CHOOSE e \in RootEntries : e[1] = k)[3]
  ELSE Absent

\* the store of the handle starts empty
StartsEmpty ==
  \/ is_null(ref_oid)
  \/ handle = "files_meta" /\ metadata_flags % (2 * FILES_META) < FILES_META

CommitsWritten ==
  {last.wrote[i] : i \in {j \in 1..Len(last.wrote) :
                            last.wrote[j].kind = "commit"}}

\* C16: every commit store_metadata_notes writes is the line `tree <id>` of
\* a tree that is not null, the fixed author and committer lines with a zero
\* timestamp and a blank line, and nothing else: it has no parent, and names
\* neither the fallback reference nor the result of an earlier
\* store_metadata_notes.
C16_RootCommit ==
  IsFlush
    => /\ \A c \in CommitsWritten :
            /\ Len(c.hdr) = 5
            /\ c.hdr[1] = "tree"
            /\ c.hdr[2].kind = "tree" /\ ~is_null(c.hdr[2])
            /\ c.hdr[3] = "author  <cinnabar@git> 0 +0000"
            /\ c.hdr[4] = "committer  <cinnabar@git> 0 +0000"
            /\ c.hdr[5] = ""
            /\ c.hdr[2] # last.reference
            /\ last.prev.some => c.hdr[2] # last.prev.result
            /\ c = last.result
       /\ Cardinality(CommitsWritten) <= 1
       /\ (last.wasDirty \/ is_null(last.reference)) => CommitsWritten # {}

\* a dirty store with entries, snapshot with a fallback that is a commit
C16_Witness ==
  /\ IsFlush /\ last.wasDirty /\ ~is_null(last.reference)
  /\ CommitsWritten # {} /\ Mapped(notes) # {}

\* C17: when store_metadata_notes serialises a dirty store, the tree entries
\* are written with mode GITLINK if and only if the handle is hg2git; for
\* git2hg, files_meta and any other handle the mode is REGULAR | RW.
C17_EntryMode ==
  (IsFlush /\ last.wasDirty)
    => /\ last.mode = GITLINK <=> handle = "hg2git"
       /\ handle # "hg2git" => last.mode = REGULAR + RW
       /\ last.mode \in {57344, 33188}
       /\ last.wrote[1].kind = "tree"
       /\ \A e \in last.wrote[1].entries : e[2] = last.mode

\* a handle that is none of the three statics, dirty, serialised with
\* entries
C17_Witness ==
  /\ IsFlush /\ last.wasDirty /\ handle \notin KnownHandles
  /\ last.mode = REGULAR + RW /\ last.wrote[1].entries # {}

LazyOps == {"get_note", "get_note_abbrev", "add_note", "remove_note"}

\* C18: a get, get_by_prefix, add or remove on an uninitialised tree that is
\* none of git2hg, hg2git, files_meta ends in the fatal error: the process is
\* aborted, cinnabar_init_notes has not been called and the tree is as it
\* was (uninitialised, clean, without entries). On each of the three known
\* handles the first such operation initialises the tree and does not die.
C18_UnknownTreeDies ==
  (last.op \in LazyOps /\ ~last.wasInit)
    => IF handle \in {"git2hg", "hg2git", "files_meta"}
       THEN ~last.died /\ ~aborted /\ last.inited /\ notes.initialized
       ELSE /\ last.died /\ aborted /\ ~last.inited
            /\ notes = Uninit
            /\ last.ret = Absent

\* an add on an uninitialised tree that is none of the three
C18_Witness ==
  /\ last.op = "add_note" /\ last.died /\ aborted
  /\ handle \notin KnownHandles /\ ~is_null(ref_oid)

\* C19: once a tree is initialised, no get, get_by_prefix, add or remove
\* calls cinnabar_init_notes again (until done()): a lookup leaves the tree
\* exactly as it was, an add or remove changes nothing but the key it is
\* given, so entries added or removed in memory and not yet written out are
\* neither lost nor reverted to the persisted root.
C19_InitOnce ==
  [][(notes.initialized /\ last'.op \in LazyOps)
       => /\ ~last'.inited /\ ~last'.died
          /\ last'.op \in {"get_note", "get_note_abbrev"} => notes' = notes
          /\ \A k \in Keys : k # last'.key
                => notes'.entries[k] = notes.entries[k]
          /\ notes.dirty => notes'.dirty]_vars

\* a lookup on a dirty tree whose entries are not those of its persisted root
C19_Witness ==
  /\ last.op = "get_note" /\ last.wasInit /\ last.wasDirty
  /\ ~is_null(ref_oid) /\ handle \in KnownHandles
  /\ \E k \in Keys : notes.entries[k] # Persisted(handle, k)
  /\ last.ret # Persisted(handle, last.key)

ReadOps == {"get_note", "get_note_abbrev", "for_each"}

\* C20: get, get_by_prefix and for_each never dirty a tree: each leaves the
\* dirty flag as it was and the entries of an initialised tree unchanged; a
\* tree becomes dirty only in an add or remove; and store_metadata_notes
\* right after a read of a clean tree serialises no tree, leaves the tree as
\* it was and, with a non-null fallback (handed in an object other than the
\* one the result is handed back in), returns the fallback and writes
\* nothing.
C20_ReadsKeepClean ==
  [][/\ (last'.op \in ReadOps)
          => /\ notes'.dirty = notes.dirty
             /\ notes.initialized => notes' = notes
     /\ (notes'.dirty /\ ~notes.dirty)
          => last'.op \in {"add_note", "remove_note"}
     /\ (last.op \in ReadOps /\ ~notes.dirty /\ IsFlush')
          => /\ last'.mode = 0 /\ notes' = notes
             /\ (~is_null(last'.reference) /\ last'.place \in {"own", "oid"})
                  => (last'.result = last'.reference /\ last'.wrote = <<>>)]_vars

\* a prefix lookup that is the first operation on a tree with a persisted
\* root: the tree is initialised with the entries of the root and clean
C20_Witness ==
  /\ last.op = "get_note_abbrev" /\ last.inited /\ last.ret # Absent
  /\ notes.initialized /\ ~notes.dirty /\ Mapped(notes) # {}

====
